---- MODULE Spec2Model ----
(***************************************************************************)
(* Seat-capacity allocation and the trip-request lifecycle of the          *)
(* routes-chat-app backend: the trip_requests table, the TripRequest and   *)
(* Trip model classes and the request handlers of routes/trips.js.         *)
(*                                                                         *)
(* Every action is one await segment of a handler or model method: the     *)
(* store query that the segment waits for, followed by the synchronous     *)
(* JavaScript that runs once the query has resolved.  Calls of different   *)
(* clients interleave between segments, as they do on the node event loop. *)
(***************************************************************************)
EXTENDS Integers, Sequences, FiniteSets, TLC

\* ---------------------------------------------------------------- bounds
MaxSeats == 3
MaxRequests == 2
NumUsers == 3
\* calls the clients of Spec issue before they stop
MaxStarts == 3
\* the clock runs from 0 to MaxTime
MaxTime == 2
\* rows ever inserted into stop_points
MaxStops == 3
\* prices per seat run from 1 to MaxPrice
MaxPrice == 2
\* distances from the centre of a search run from 0 to MaxDist kilometres
MaxDist == 2

Users == 1..NumUsers
\* ids of the rows of table trips at start-up; every query of the request
\* ledger is scoped by trip_id
TripIds == {1}
\* ids of the rows of table routes
Routes == {1, 2}
\* identities of the client calls that may be in flight at the same time
Calls == {"c1", "c2"}

\* ---------------------------------------------------------------- state
VARIABLES
  trips,      \* table trips: id -> [driver_id, available_seats]
  requests,   \* table trip_requests: sequence of rows, index = SERIAL id
  calls,      \* per client: the call it has in flight, its position and locals
  response,   \* the outcome delivered by the last step, if the step ended a call
  probe,      \* the test client: calls it may still issue, outcomes it noted
  stops,      \* table stop_points: sequence of rows, index = SERIAL id
  now,        \* the clock read by new Date()
  routes,     \* table routes: id -> row
  users       \* tables users and user_roles: id -> account and admin assignment

vars == <<trips, requests, calls, response, probe, stops, now, routes, users>>

\* the ids of the stored trips
Trips == DOMAIN trips

\* messages of the exceptions and of the error responses
NotEnoughSeats == "Not enough available seats"
UniqueViolation == "unique_passenger_trip"
NotAFunction == "TypeError: TripRequest.findPendingByUserAndTrip is not a function"
OwnTrip == "Cannot request your own trip"
PassengerCount == "Passenger count must be between 1 and available_seats"
FailedCreate == "Failed to create trip request"
FailedUpdate == "Failed to update trip request"
NotAuthManage == "Not authorized to manage trip requests"
NotAuthCancel == "Not authorized to cancel this request"
RequestNotFound == "Trip request not found"
OnlyCancelActive == "Can only cancel pending or approved requests"

allowedStatuses == {"pending", "approved", "rejected", "cancelled"}

\* CHECK (trip_status IN (...))
tripStatuses == {"scheduled", "active", "completed", "cancelled"}

IdleCall ==
  [op |-> "idle", pc |-> "idle", user |-> 0, trip |-> 0, req |-> 0,
   seats |-> 0, status |-> "", this_status |-> "", this_seats |-> 0,
   this_trip |-> 0, trip_seats |-> 0, thrown |-> "", http |-> 0, error |-> "",
   route |-> 0, stop |-> 0, order |-> 0, price |-> 0, field |-> "",
   flag |-> FALSE, radius |-> 0, rows |-> <<>>]

NoResponse == IdleCall

\* a client issues a call when it has none in flight and calls left to issue
\* (budget -1: no limit)
Free(c) == calls[c].pc = "idle" /\ probe.budget # 0

Issued(c, p) ==
  IF calls[c].pc = "idle" /\ p.budget > 0
    THEN [p EXCEPT !.budget = @ - 1,
                   !.overlap = @ \/ (p.noting /\ \E d \in Calls : calls[d].pc # "idle")]
    ELSE p

\* the test client notes how the approval of each request ended
Noted(p, call) ==
  IF p.noting /\ call.status = "approved" /\ call.pc \in {"update", "hasSeats"}
    THEN [p EXCEPT !.outcome[call.req] = IF call.thrown = "" THEN "ok" ELSE call.thrown]
    ELSE p

\* a segment that ends at an await: the call stays in flight
Continue(c, call) ==
  /\ calls' = [calls EXCEPT ![c] = call]
  /\ response' = NoResponse
  /\ probe' = Issued(c, probe)

\* a segment that returns, throws or sends the HTTP response: the call is over
Respond(c, call) ==
  /\ calls' = [calls EXCEPT ![c] = IdleCall]
  /\ response' = [call EXCEPT !.pc = "done"]
  /\ probe' = Noted(Issued(c, probe), call)

\* ---------------------------------------------------------------- queries
RECURSIVE SumApproved(_, _, _)
SumApproved(rows, t, i) ==
  IF i > Len(rows) THEN 0
  ELSE (IF rows[i].trip_id = t /\ rows[i].request_status = "approved"
          THEN rows[i].requested_seats ELSE 0) + SumApproved(rows, t, i + 1)

RECURSIVE SumNotPending(_, _, _)
SumNotPending(rows, t, i) ==
  IF i > Len(rows) THEN 0
  ELSE (IF rows[i].trip_id = t /\ rows[i].request_status # "pending"
          THEN rows[i].requested_seats ELSE 0) + SumNotPending(rows, t, i + 1)

\* a sum that keeps counting a request once it has left pending
ApprovedSeats_NotPending(rows, t) == SumNotPending(rows, t, 1)

\* SELECT SUM(requested_seats) ... WHERE trip_id = t AND request_status = 'approved', COALESCE 0
ApprovedSeats(rows, t) == SumApproved(rows, t, 1)

\* the remaining_seats column of the query of Trip.getRemainingSeats
RemainingSeatsRow(tr, rows, t) == tr[t].available_seats - ApprovedSeats(rows, t)

\* parseInt(remaining_seats) || this.available_seats : 0 is falsy
getRemainingSeats(tr, rows, t, this_available_seats) ==
  LET r == RemainingSeatsRow(tr, rows, t)
  IN  IF r # 0 THEN r ELSE this_available_seats

hasAvailableSeats(tr, rows, t, this_available_seats, requestedSeats) ==
  getRemainingSeats(tr, rows, t, this_available_seats) >= requestedSeats

\* a table without the constraint
ViolatesUnique_Unconstrained(rows, t, u) == FALSE

\* the unique_passenger_trip constraint as seen by an INSERT
ViolatesUnique(rows, t, u) ==
  \E i \in 1..Len(rows) : rows[i].trip_id = t /\ rows[i].passenger_id = u

\* a price that forgets the seat count
TotalPrice_PerSeat(pricePerSeat, requested_seats) == pricePerSeat

\* TripRequest.create line 36: pricePerSeat * requested_seats
TotalPrice(pricePerSeat, requested_seats) == pricePerSeat * requested_seats

InsertRow(rows, t, u, n, total_price) ==
  Append(rows, [trip_id |-> t, passenger_id |-> u, requested_seats |-> n,
                request_status |-> "pending", total_price |-> total_price])

\* UPDATE trip_requests SET request_status = s WHERE id = r
UpdateRow(rows, r, s) == [rows EXCEPT ![r].request_status = s]

\* ---------------------------------------------------------------- Init
IdleProbe ==
  [budget |-> -1, noting |-> FALSE, overlap |-> FALSE,
   outcome |-> [r \in 1..MaxRequests |-> ""],
   phase |-> "off", req |-> 0, before |-> 0, after |-> 0]

\* a coordinate column that holds NULL, and a distance computed from one
Null == -1

\* seedDefaultRoutes inserts the default routes without created_by (0 stands
\* for NULL); POST / inserts custom routes with created_by = the caller
SeededRoutes ==
  [rt \in Routes |->
     [route_type |-> IF rt = 1 THEN "default" ELSE "custom",
      created_by |-> IF rt = 1 THEN 0 ELSE 1,
      is_active |-> TRUE, is_public |-> (rt = 1),
      distance_from_start |-> 0, distance_from_end |-> 0]]

\* the accounts: all active, the first one holds the admin role
FirstUsers ==
  [u \in Users |-> [is_active |-> TRUE,
                    admin_role |-> IF u = 1 THEN "active" ELSE "absent"]]

\* the service after start-up: trips posted by their driver, no request yet
Start ==
  /\ trips \in [TripIds -> [driver_id : {1}, available_seats : 1..MaxSeats,
                               trip_status : {"scheduled"}, departure_time : {1},
                               price_per_seat : {1}]]
  /\ requests = <<>>
  /\ calls = [c \in Calls |-> IdleCall]
  /\ response = NoResponse
  /\ stops = <<>>
  /\ now = 0
  /\ routes = SeededRoutes
  /\ users = FirstUsers

Init ==
  /\ Start
  /\ probe = [IdleProbe EXCEPT !.budget = MaxStarts]

\* ---------------------------------------------------------------- TripRequest.create
\* first segment: SELECT price_per_seat FROM trips WHERE id = trip_id (the trip
\* exists).  The callers ask for a passenger other than the driver and for a
\* seat count the trip can hold; create itself checks neither.
CreateSelectPrice(c) ==
  /\ Free(c)
  /\ Len(requests) + Cardinality({d \in Calls : calls[d].pc = "insert"}) < MaxRequests
  /\ \E t \in Trips :
     \E u \in Users \ {trips[t].driver_id}, n \in 1..trips[t].available_seats :
       Continue(c, [IdleCall EXCEPT !.op = "create", !.pc = "insert",
                                    !.user = u, !.trip = t, !.seats = n,
                                    !.price = trips[t].price_per_seat])
  /\ UNCHANGED <<trips, requests, stops, now, routes, users>>

\* second segment: the INSERT, refused by the store on unique_passenger_trip
CreateInsert(c) ==
  /\ calls[c].pc = "insert"
  /\ IF ViolatesUnique(requests, calls[c].trip, calls[c].user)
       THEN /\ Respond(c, [calls[c] EXCEPT !.thrown = UniqueViolation])
            /\ UNCHANGED <<requests, routes, users>>
       ELSE /\ requests' = InsertRow(requests, calls[c].trip, calls[c].user, calls[c].seats,
                                  TotalPrice(calls[c].price, calls[c].seats))
            /\ Respond(c, [calls[c] EXCEPT !.req = Len(requests) + 1])
  /\ UNCHANGED <<trips, stops, now, routes, users>>

\* ---------------------------------------------------------------- TripRequest.findById + approve / reject / cancel
StatusOf(method) ==
  CASE method = "approve" -> "approved"
    [] method = "reject"  -> "rejected"
    [] method = "cancel"  -> "cancelled"

\* the instance built from the row that findById read; this_status keeps the
\* request_status the instance had when updateStatus was entered
Loaded(call, rows) ==
  [call EXCEPT !.pc = "update",
               !.this_status = rows[call.req].request_status,
               !.this_seats = rows[call.req].requested_seats,
               !.this_trip = rows[call.req].trip_id]

\* a caller of the model class loads the instance and calls one of its methods
FindById(c) ==
  /\ Free(c)
  /\ \E r \in 1..Len(requests), m \in {"approve", "reject", "cancel"} :
       Continue(c, Loaded([IdleCall EXCEPT !.op = m, !.req = r, !.status = StatusOf(m)],
                          requests))
  /\ UNCHANGED <<trips, requests, stops, now, routes, users>>

\* what the caller gets once updateStatus has returned or thrown; the PUT
\* handler turns a throw into a 500 (lines 433-436)
Finished(call, thrown) ==
  [call EXCEPT !.thrown = thrown,
               !.http = IF call.op # "putRequest" THEN 0
                        ELSE IF thrown = "" THEN 200 ELSE 500,
               !.error = IF call.op = "putRequest" /\ thrown # "" THEN FailedUpdate ELSE ""]

\* updateStatus, lines 164-185: the UPDATE is issued whatever the stored status
\* is, and the instance is refreshed from the returned row
UpdateStatusWrite(c) ==
  /\ calls[c].pc = "update"
  /\ calls[c].status \in allowedStatuses
  /\ requests' = UpdateRow(requests, calls[c].req, calls[c].status)
  /\ LET row == requests'[calls[c].req]
         refreshed == [calls[c] EXCEPT !.this_seats = row.requested_seats,
                                       !.this_trip = row.trip_id]
     IN  IF calls[c].status = "approved"
           THEN Continue(c, [refreshed EXCEPT !.pc = "getTrip"])
           ELSE Respond(c, Finished(refreshed, ""))
  /\ UNCHANGED <<trips, stops, now, routes, users>>

\* updateStatus, line 189: trip = await this.getTrip()
UpdateStatusGetTrip(c) ==
  /\ calls[c].pc = "getTrip"
  /\ Continue(c, [calls[c] EXCEPT !.pc = "hasSeats",
                    !.trip_seats = trips[calls[c].this_trip].available_seats])
  /\ UNCHANGED <<trips, requests, stops, now, routes, users>>

\* updateStatus, lines 190-197: the capacity check, made after the write
UpdateStatusHasSeats(c) ==
  /\ calls[c].pc = "hasSeats"
  /\ IF hasAvailableSeats(trips, requests, calls[c].this_trip,
                          calls[c].trip_seats, calls[c].this_seats)
       THEN Respond(c, Finished(calls[c], ""))
       ELSE Respond(c, Finished(calls[c], NotEnoughSeats))
  /\ UNCHANGED <<trips, requests, stops, now, routes, users>>

\* ---------------------------------------------------------------- PUT /:id/requests/:requestId
\* a handler that lets every user manage the requests
NotTripDriver_Anyone(trip_driver_id, userId) == FALSE

\* line 405: trip.driver_id !== req.user.userId
NotTripDriver(trip_driver_id, userId) == trip_driver_id # userId

PutFindTrip(c) ==
  /\ Free(c)
  /\ \E u \in Users, t \in Trips, r \in 1..MaxRequests, a \in {"approve", "reject"} :
       LET call == [IdleCall EXCEPT !.op = "putRequest", !.user = u, !.trip = t,
                                    !.req = r, !.status = StatusOf(a)]
       IN  IF NotTripDriver(trips[t].driver_id, u)
             THEN Respond(c, [call EXCEPT !.http = 403, !.error = NotAuthManage])
             ELSE Continue(c, [call EXCEPT !.pc = "findRequest"])
  /\ UNCHANGED <<trips, requests, stops, now, routes, users>>

\* a handler that takes a request of any trip
NotOfTrip_AnyTrip(request_trip_id, trip_id) == FALSE

\* line 411: tripRequest.trip_id !== trip.id
NotOfTrip(request_trip_id, trip_id) == request_trip_id # trip_id

PutFindRequest(c) ==
  /\ calls[c].pc = "findRequest"
  /\ LET r == calls[c].req
     IN  IF r > Len(requests) \/ NotOfTrip(requests[r].trip_id, calls[c].trip)
           THEN Respond(c, [calls[c] EXCEPT !.http = 404, !.error = RequestNotFound])
           ELSE Continue(c, Loaded(calls[c], requests))
  /\ UNCHANGED <<trips, requests, stops, now, routes, users>>

\* ---------------------------------------------------------------- POST /:id/request
\* a validation that forgets the upper bound
InvalidPassengerCount_LowerOnly(passenger_count, available_seats) ==
  passenger_count < 1

\* line 352: the seat-count validation
InvalidPassengerCount(passenger_count, available_seats) ==
  passenger_count < 1 \/ passenger_count > available_seats

\* a handler that lets the driver through
OwnTripRequest_Allowed(trip_driver_id, userId) == FALSE

\* line 336: trip.driver_id === req.user.userId
OwnTripRequest(trip_driver_id, userId) == trip_driver_id = userId

\* One segment after Trip.findById.  Line 359 negates the promise returned by
\* the async hasAvailableSeats, which is never falsy; line 364 calls a static
\* method the TripRequest class does not define, so a call that passes the
\* validations ends in the catch block.
PostRequest(c) ==
  /\ Free(c)
  /\ \E u \in Users, t \in Trips, n \in 0..(MaxSeats + 1) :
       LET call == [IdleCall EXCEPT !.op = "postRequest", !.user = u,
                                    !.trip = t, !.seats = n,
                                    !.trip_seats = trips[t].available_seats]
       IN  IF OwnTripRequest(trips[t].driver_id, u)
             THEN Respond(c, [call EXCEPT !.http = 400, !.error = OwnTrip])
           ELSE IF InvalidPassengerCount(n, trips[t].available_seats)
             THEN Respond(c, [call EXCEPT !.http = 400, !.error = PassengerCount])
           ELSE Respond(c, [call EXCEPT !.http = 500, !.error = FailedCreate,
                                        !.thrown = NotAFunction])
  /\ UNCHANGED <<trips, requests, stops, now, routes, users>>

\* ---------------------------------------------------------------- DELETE /requests/:requestId
\* line 482 reads tripRequest.status, a field the instance does not have
\* (the column is request_status), so the status test refuses every request
\* a handler that lets every user cancel
NotOwnRequest_Anyone(passenger_id, userId) == FALSE

\* line 477: tripRequest.passenger_id !== req.user.userId
NotOwnRequest(passenger_id, userId) == passenger_id # userId

DeleteRequest(c) ==
  /\ Free(c)
  /\ \E u \in Users, r \in 1..MaxRequests :
       LET call == [IdleCall EXCEPT !.op = "deleteRequest", !.user = u, !.req = r]
       IN  IF r > Len(requests)
             THEN Respond(c, [call EXCEPT !.http = 404, !.error = RequestNotFound])
           ELSE IF NotOwnRequest(requests[r].passenger_id, u)
             THEN Respond(c, [Loaded(call, requests) EXCEPT !.http = 403, !.error = NotAuthCancel])
           ELSE Respond(c, [Loaded(call, requests) EXCEPT !.http = 400, !.error = OnlyCancelActive])
  /\ UNCHANGED <<trips, requests, stops, now, routes, users>>

\* ---------------------------------------------------------------- Trip.update / cancel / start / complete
NotAuthUpdateTrip == "Not authorized to update this trip"
NotAuthCancelTrip == "Not authorized to cancel this trip"
FailedUpdateTrip == "Failed to update trip"
FailedCancelTrip == "Failed to cancel trip"
HasStartedNotAFunction == "TypeError: trip.hasStarted is not a function"

\* the clock advances between two steps
Tick ==
  /\ now < MaxTime
  /\ now' = now + 1
  /\ UNCHANGED <<trips, requests, calls, response, probe, stops, routes, users>>

\* the trip_status that cancel, start and complete hand to update
TripStatusOf(method) ==
  CASE method = "tripCancel"   -> "cancelled"
    [] method = "tripStart"    -> "active"
    [] method = "tripComplete" -> "completed"

\* a caller of the model class loads a trip with Trip.findById and calls
\* cancel, start, complete or update({trip_status}) on the instance
TripFindById(c) ==
  /\ Free(c)
  /\ \E t \in Trips :
       \/ \E m \in {"tripCancel", "tripStart", "tripComplete"} :
            Continue(c, [IdleCall EXCEPT !.op = m, !.pc = "tripUpdate", !.trip = t,
                                         !.status = TripStatusOf(m),
                                         !.field = "trip_status",
                                         !.this_status = trips[t].trip_status])
       \/ \E s \in tripStatuses :
            Continue(c, [IdleCall EXCEPT !.op = "tripUpdate", !.pc = "tripUpdate",
                                         !.trip = t, !.status = s,
                                         !.field = "trip_status",
                                         !.this_status = trips[t].trip_status])
  /\ UNCHANGED <<trips, requests, stops, now, routes, users>>

\* a caller loads a trip and calls update({available_seats}) or
\* update({price_per_seat}) on the instance
TripFindByIdUpdate(c) ==
  /\ Free(c)
  /\ \E t \in Trips :
       \/ \E n \in 1..MaxSeats :
            Continue(c, [IdleCall EXCEPT !.op = "tripUpdate", !.pc = "tripUpdate",
                                         !.trip = t, !.seats = n,
                                         !.field = "available_seats",
                                         !.this_status = trips[t].trip_status])
       \/ \E p \in 1..MaxPrice :
            Continue(c, [IdleCall EXCEPT !.op = "tripUpdate", !.pc = "tripUpdate",
                                         !.trip = t, !.price = p,
                                         !.field = "price_per_seat",
                                         !.this_status = trips[t].trip_status])
  /\ UNCHANGED <<trips, requests, stops, now, routes, users>>

\* the row of the trip after UPDATE trips SET <field> = $1
UpdatedTrip(trip, call) ==
  CASE call.field = "trip_status"     -> [trip EXCEPT !.trip_status = call.status]
    [] call.field = "available_seats" -> [trip EXCEPT !.available_seats = call.seats]
    [] call.field = "price_per_seat"  -> [trip EXCEPT !.price_per_seat = call.price]

\* Trip.update, lines 235-250: UPDATE trips SET <field> = $1 WHERE id = $2
TripUpdate(c) ==
  /\ calls[c].pc = "tripUpdate"
  /\ trips' = [trips EXCEPT ![calls[c].trip] = UpdatedTrip(@, calls[c])]
  /\ Respond(c, calls[c])
  /\ UNCHANGED <<requests, stops, now, routes, users>>

\* ---------------------------------------------------------------- TripRequest.update
IndeterminateParameter == "could not determine data type of parameter $1"

\* a caller loads a request and calls update({requested_seats}) or
\* update({message}) on the instance
RequestFindByIdUpdate(c) ==
  /\ Free(c)
  /\ \E r \in 1..Len(requests) :
       \/ \E n \in 1..MaxSeats :
            Continue(c, [Loaded([IdleCall EXCEPT !.op = "requestUpdate", !.req = r,
                                                 !.seats = n,
                                                 !.field = "requested_seats"],
                                requests) EXCEPT !.pc = "requestUpdate"])
       \/ Continue(c, [Loaded([IdleCall EXCEPT !.op = "requestUpdate", !.req = r,
                                                !.field = "message"],
                               requests) EXCEPT !.pc = "requestUpdate"])
  /\ UNCHANGED <<trips, requests, stops, now, routes, users>>

\* TripRequest.update, the first query it awaits.  With requested_seats the
\* loop of lines 229-235 has numbered requested_seats $1, so valueIndex is at
\* least 2 and line 239 builds SELECT ... WHERE id = $2 (or higher) while line
\* 242 passes one value: the store refuses the statement and update throws
\* before any UPDATE.  Without requested_seats the UPDATE of lines 256-264
\* writes the other columns and returns the row.
RequestUpdate(c) ==
  /\ calls[c].pc = "requestUpdate"
  /\ IF calls[c].field = "requested_seats"
       THEN Respond(c, [calls[c] EXCEPT !.thrown = IndeterminateParameter])
       ELSE Respond(c, calls[c])
  /\ UNCHANGED <<trips, requests, stops, now, routes, users>>

\* ---------------------------------------------------------------- PUT /:id and DELETE /:id
\* One segment after Trip.findById.  Past the driver test both handlers call
\* trip.hasStarted(), which the Trip class does not define: the call throws
\* and the catch block answers 500.
PutTrip(c) ==
  /\ Free(c)
  /\ \E u \in Users, t \in Trips :
       LET call == [IdleCall EXCEPT !.op = "putTrip", !.user = u, !.trip = t,
                                    !.this_status = trips[t].trip_status]
       IN  IF trips[t].driver_id # u
             THEN Respond(c, [call EXCEPT !.http = 403, !.error = NotAuthUpdateTrip])
             ELSE Respond(c, [call EXCEPT !.http = 500, !.error = FailedUpdateTrip,
                                          !.thrown = HasStartedNotAFunction])
  /\ UNCHANGED <<trips, requests, stops, now, routes, users>>

DeleteTrip(c) ==
  /\ Free(c)
  /\ \E u \in Users, t \in Trips :
       LET call == [IdleCall EXCEPT !.op = "deleteTrip", !.user = u, !.trip = t,
                                    !.this_status = trips[t].trip_status]
       IN  IF trips[t].driver_id # u
             THEN Respond(c, [call EXCEPT !.http = 403, !.error = NotAuthCancelTrip])
             ELSE Respond(c, [call EXCEPT !.http = 500, !.error = FailedCancelTrip,
                                          !.thrown = HasStartedNotAFunction])
  /\ UNCHANGED <<trips, requests, stops, now, routes, users>>

\* ---------------------------------------------------------------- Trip.isBookable
\* lines 335-342: the instance's own fields, read at time clock
isBookable(trip, clock) ==
  /\ trip.trip_status = "scheduled"
  /\ trip.departure_time > clock
  /\ trip.available_seats > 0

\* ---------------------------------------------------------------- table stop_points
\* what the caller of a stop method gets: a route handler turns the return
\* into 200 or 201 and a throw into 500 (its catch block)
Answered(call) ==
  IF call.op \in {"postStop", "putStop", "deleteStop"}
    THEN [call EXCEPT !.http = IF call.thrown # "" THEN 500
                                ELSE IF call.op = "postStop" THEN 201 ELSE 200]
    ELSE call

UniqueStopOrder == "unique_route_stop_order"
StopNotFound == "Stop point not found"

\* what is left at the id of a deleted row; SERIAL ids are not reused
DeadStop == [route_id |-> 0, stop_order |-> 0, live |-> FALSE]

\* ids of the rows WHERE route_id = route
LiveStops(rows, route) ==
  {i \in 1..Len(rows) : rows[i].live /\ rows[i].route_id = route}

\* SELECT COALESCE(MAX(stop_order), 0) ... WHERE route_id = route
MaxStopOrder(rows, route) ==
  LET S == {rows[i].stop_order : i \in LiveStops(rows, route)}
  IN  IF S = {} THEN 0 ELSE CHOOSE m \in S : \A x \in S : x <= m

\* a table without the constraint
ViolatesUniqueOrder_Unconstrained(rows, route, order, self) == FALSE

\* the unique_route_stop_order constraint as seen by the write of row self
\* (0 for an INSERT): another row of the route holds the order
ViolatesUniqueOrder(rows, route, order, self) ==
  \E i \in LiveStops(rows, route) \ {self} : rows[i].stop_order = order

\* ROW_NUMBER() OVER (ORDER BY stop_order) of row i among the rows of its route
RowNumber(rows, i) ==
  Cardinality({j \in LiveStops(rows, rows[i].route_id) :
                 rows[j].stop_order <= rows[i].stop_order})

\* the orders in which one UPDATE may visit the rows S; the store fixes none
VisitOrders(S) ==
  {v \in [1..Cardinality(S) -> S] : \A a, b \in 1..Cardinality(S) : a # b => v[a] # v[b]}

\* The multi-row UPDATE of reorderStopPoints.  The constraint is not
\* deferrable, so the store tests it row by row as it writes: a row whose new
\* order is still held by a row not yet visited fails the statement.
RECURSIVE VisitRows(_, _, _, _)
VisitRows(rows, new_order, visit, k) ==
  IF k > Len(visit) THEN [ok |-> TRUE, rows |-> rows]
  ELSE LET i == visit[k]
       IN  IF ViolatesUniqueOrder(rows, rows[i].route_id, new_order[i], i)
             THEN [ok |-> FALSE, rows |-> rows]
             ELSE VisitRows([rows EXCEPT ![i].stop_order = new_order[i]],
                            new_order, visit, k + 1)

\* ---------------------------------------------------------------- StopPoint.create
\* stop_order 0 stands for a stop_order that is not provided: !order holds for
\* both.  Without an order the first segment is the SELECT of the next order;
\* with one it is the INSERT.
CreateStop(c, call) ==
  IF call.order = 0
    THEN /\ Continue(c, [call EXCEPT !.pc = "stopInsert",
                                     !.order = MaxStopOrder(stops, call.route) + 1])
         /\ UNCHANGED stops
  ELSE IF ViolatesUniqueOrder(stops, call.route, call.order, 0)
    THEN /\ Respond(c, Answered([call EXCEPT !.thrown = UniqueStopOrder]))
         /\ UNCHANGED stops
  ELSE /\ stops' = Append(stops, [route_id |-> call.route,
                                  stop_order |-> call.order, live |-> TRUE])
       /\ Respond(c, Answered([call EXCEPT !.stop = Len(stops) + 1]))

\* the rows stop_points would hold if every create in flight inserted
StopsInFlight ==
  Len(stops) + Cardinality({d \in Calls : calls[d].pc \in {"stopInsert", "addStopPoint"}})

\* StopPoint.create called with an order of orders
StopCreate(c, orders) ==
  /\ Free(c)
  /\ StopsInFlight < MaxStops
  /\ \E rt \in Routes, o \in orders :
       CreateStop(c, [IdleCall EXCEPT !.op = "stopCreate", !.route = rt, !.order = o])
  /\ UNCHANGED <<trips, requests, now, routes, users>>

\* POST /:id/stops after the canEdit test: route.addStopPoint, which is
\* StopPoint.create with route_id = the route of the URL
RouteAddStopPoint(c) ==
  /\ calls[c].pc = "addStopPoint"
  /\ CreateStop(c, calls[c])
  /\ UNCHANGED <<trips, requests, now, routes, users>>

\* the INSERT that follows the SELECT of the next order
StopCreateInsert(c) ==
  /\ calls[c].pc = "stopInsert"
  /\ IF ViolatesUniqueOrder(stops, calls[c].route, calls[c].order, 0)
       THEN /\ Respond(c, Answered([calls[c] EXCEPT !.thrown = UniqueStopOrder]))
            /\ UNCHANGED <<stops, routes, users>>
       ELSE /\ stops' = Append(stops, [route_id |-> calls[c].route,
                                       stop_order |-> calls[c].order, live |-> TRUE])
            /\ Respond(c, Answered([calls[c] EXCEPT !.stop = Len(stops) + 1]))
  /\ UNCHANGED <<trips, requests, now, routes, users>>

\* ---------------------------------------------------------------- StopPoint.findById + update / delete
\* a caller loads a stop and calls update({stop_order}) or delete on it
StopFindById(c, methods) ==
  /\ Free(c)
  /\ \E i \in 1..Len(stops), m \in methods, o \in 1..MaxStops :
       /\ stops[i].live
       /\ m = "stopDelete" => o = 1
       /\ Continue(c, [IdleCall EXCEPT !.op = m, !.pc = m, !.stop = i,
                                        !.route = stops[i].route_id,
                                        !.order = IF m = "stopUpdate" THEN o ELSE 0])
  /\ UNCHANGED <<trips, requests, stops, now, routes, users>>

\* StopPoint.update, lines 147-162: UPDATE stop_points SET stop_order = $1 WHERE id = $2
StopUpdate(c) ==
  /\ calls[c].pc = "stopUpdate"
  /\ LET i == calls[c].stop
     IN  IF ~stops[i].live
           THEN /\ Respond(c, Answered([calls[c] EXCEPT !.thrown = StopNotFound]))
                /\ UNCHANGED <<stops, routes, users>>
         ELSE IF ViolatesUniqueOrder(stops, stops[i].route_id, calls[c].order, i)
           THEN /\ Respond(c, Answered([calls[c] EXCEPT !.thrown = UniqueStopOrder]))
                /\ UNCHANGED <<stops, routes, users>>
         ELSE /\ stops' = [stops EXCEPT ![i].stop_order = calls[c].order]
              /\ Respond(c, Answered(calls[c]))
  /\ UNCHANGED <<trips, requests, now, routes, users>>

\* StopPoint.delete, lines 170-177: DELETE FROM stop_points WHERE id = $1
StopDelete(c) ==
  /\ calls[c].pc = "stopDelete"
  /\ LET i == calls[c].stop
     IN  IF ~stops[i].live
           THEN /\ Respond(c, Answered([calls[c] EXCEPT !.thrown = StopNotFound]))
                /\ UNCHANGED <<stops, routes, users>>
           ELSE /\ stops' = [stops EXCEPT ![i] = DeadStop]
                /\ Continue(c, [calls[c] EXCEPT !.pc = "reorder"])
  /\ UNCHANGED <<trips, requests, now, routes, users>>

\* StopPoint.reorderStopPoints, lines 189-206, on this.route_id
StopReorder(c) ==
  /\ calls[c].pc = "reorder"
  /\ LET S == LiveStops(stops, calls[c].route)
         new_order == [i \in S |-> RowNumber(stops, i)]
     IN  \E visit \in VisitOrders(S) :
           LET result == VisitRows(stops, new_order, visit, 1)
           IN  IF result.ok
                 THEN /\ stops' = result.rows
                      /\ Respond(c, Answered(calls[c]))
                 ELSE /\ UNCHANGED <<stops, routes, users>>
                      /\ Respond(c, Answered([calls[c] EXCEPT !.thrown = UniqueStopOrder]))
  /\ UNCHANGED <<trips, requests, now, routes, users>>

\* ---------------------------------------------------------------- Route.findNearby
\* SQL comparison: NULL <= r is not true
WithinRadius(distance, radiusKm) == distance # Null /\ distance <= radiusKm

\* LEAST(a, b) of PostgreSQL: NULL arguments are ignored
LEAST(a, b) ==
  IF a = Null THEN b
  ELSE IF b = Null THEN a
  ELSE IF a <= b THEN a ELSE b

\* a WHERE clause that forgets is_active
IsNearby_Inactive(route, radiusKm) ==
  \/ WithinRadius(route.distance_from_start, radiusKm)
  \/ WithinRadius(route.distance_from_end, radiusKm)

\* lines 435-448: WHERE r.is_active = true AND (start <= $3 OR end <= $3)
IsNearby(route, radiusKm) ==
  /\ route.is_active
  /\ \/ WithinRadius(route.distance_from_start, radiusKm)
     \/ WithinRadius(route.distance_from_end, radiusKm)

\* line 449: ORDER BY LEAST(distance_from_start, distance_from_end); rows of
\* equal key come in an order the store chooses, here the one CHOOSE fixes
RECURSIVE OrderByLeast(_, _)
OrderByLeast(table, ids) ==
  IF ids = {} THEN <<>>
  ELSE LET key(rt) == LEAST(table[rt].distance_from_start, table[rt].distance_from_end)
           first == CHOOSE rt \in ids : \A other \in ids : key(rt) <= key(other)
       IN  <<first>> \o OrderByLeast(table, ids \ {first})

\* Route.findNearby(latitude, longitude, radiusKm): one SELECT.  The rows
\* carry what the great-circle expression of lines 422-433 gives for their
\* coordinates and the centre of the call.
findNearby(c) ==
  /\ Free(c)
  /\ \E radiusKm \in 0..MaxDist :
       Respond(c, [IdleCall EXCEPT
                     !.op = "findNearby", !.radius = radiusKm,
                     !.rows = OrderByLeast(routes,
                                {rt \in Routes : IsNearby(routes[rt], radiusKm)})])
  /\ UNCHANGED <<trips, requests, stops, now, routes, users>>

\* ---------------------------------------------------------------- route handlers
RouteNotFound == "Route not found"
NotAuthEditRoute == "Not authorized to edit this route"
NotAuthDeleteRoute == "Not authorized to delete this route"
StopPointNotFound == "Stop point not found"

routeHandlers == {"putRoute", "deleteRoute", "postStop", "putStop", "deleteStop"}

\* a rule that lets everyone edit
canEdit_Anyone(route, userId) == TRUE

\* Route.canEdit
canEdit(route, userId) == route.created_by = userId \/ route.route_type = "custom"

\* the position a handler goes on from once the route is found and editable
AfterCanEdit(op) ==
  CASE op = "putRoute"    -> "routeUpdate"
    [] op = "deleteRoute" -> "routeDelete"
    [] op = "postStop"    -> "addStopPoint"
    [] OTHER              -> "stopFind"

\* PUT /:id, DELETE /:id, POST /:id/stops, PUT and DELETE /:id/stops/:stopId
\* up to their second await: Route.findById (is_active = true), the 404 and
\* the canEdit test.  order 0 stands for a stop_order that is not provided.
RouteFindById(c, handlers) ==
  /\ Free(c)
  /\ \E u \in Users, rt \in Routes, op \in handlers,
        i \in 1..MaxStops, o \in 0..MaxStops, b \in BOOLEAN :
       /\ op \in {"putRoute", "deleteRoute", "postStop"} => i = 1
       /\ op \in {"putRoute", "deleteRoute", "deleteStop"} => o = 0
       /\ op = "putStop" => o > 0
       /\ op # "putRoute" => b
       /\ op = "postStop" => StopsInFlight < MaxStops
       /\ LET call == [IdleCall EXCEPT !.op = op, !.user = u, !.route = rt,
                                        !.stop = i, !.order = o, !.flag = b]
          IN  IF ~routes[rt].is_active
                THEN Respond(c, [call EXCEPT !.http = 404, !.error = RouteNotFound])
              ELSE IF ~canEdit(routes[rt], u)
                THEN Respond(c, [call EXCEPT
                                   !.http = 403,
                                   !.error = IF op = "deleteRoute"
                                               THEN NotAuthDeleteRoute
                                               ELSE NotAuthEditRoute])
              ELSE Continue(c, [call EXCEPT !.pc = AfterCanEdit(op)])
  /\ UNCHANGED <<trips, requests, stops, now, routes, users>>

\* Route.update, lines 491-497: UPDATE routes SET is_public = $1 WHERE id = $2
RouteUpdate(c) ==
  /\ calls[c].pc = "routeUpdate"
  /\ routes' = [routes EXCEPT ![calls[c].route].is_public = calls[c].flag]
  /\ Respond(c, [calls[c] EXCEPT !.http = 200])
  /\ UNCHANGED <<trips, requests, stops, now, users>>

\* Route.delete: UPDATE routes SET is_active = false WHERE id = $1
RouteDelete(c) ==
  /\ calls[c].pc = "routeDelete"
  /\ routes' = [routes EXCEPT ![calls[c].route].is_active = FALSE]
  /\ Respond(c, [calls[c] EXCEPT !.http = 200])
  /\ UNCHANGED <<trips, requests, stops, now, users>>

\* PUT and DELETE /:id/stops/:stopId: StopPoint.findById and the 404
RouteStopFindById(c) ==
  /\ calls[c].pc = "stopFind"
  /\ LET i == calls[c].stop
     IN  IF i > Len(stops) \/ ~stops[i].live \/ stops[i].route_id # calls[c].route
           THEN Respond(c, [calls[c] EXCEPT !.http = 404, !.error = StopPointNotFound])
           ELSE Continue(c, [calls[c] EXCEPT
                               !.pc = IF calls[c].op = "putStop"
                                        THEN "stopUpdate" ELSE "stopDelete"])
  /\ UNCHANGED <<trips, requests, stops, now, routes, users>>

\* ---------------------------------------------------------------- role and user handlers
UserNotFound == "User not found"
LastAdminRole == "Cannot remove admin role from the last administrator"
LastAdminAllRoles == "Cannot remove all roles from the last administrator"
LastAdminDelete == "Cannot delete the last administrator"
AssignmentNotFound == "User role assignment not found"

\* users.js DELETE /:userId/roles/:roleId, roles.js DELETE /:roleId/remove/:userId
\* (both with the id of the admin role), users.js DELETE /:userId/roles and
\* DELETE /:id
roleHandlers == {"usersRemoveRole", "rolesRemoveRole", "removeAllRoles", "deleteUser"}

\* UserRole.getUsersWithRole(admin role), lines 473-494: assignment active,
\* user active
getUsersWithRole(table) ==
  {u \in Users : table[u].admin_role = "active" /\ table[u].is_active}

\* the answer of each handler to the last administrator
LastAdminError(op) ==
  CASE op = "usersRemoveRole" -> LastAdminRole
    [] op = "removeAllRoles"  -> LastAdminAllRoles
    [] OTHER                  -> LastAdminDelete

\* the statement each handler ends with
WriteOf(op) ==
  CASE op \in {"usersRemoveRole", "rolesRemoveRole"} -> "removeRole"
    [] op = "removeAllRoles"                          -> "removeAllUserRoles"
    [] OTHER                                          -> "userDelete"

\* User.findById (is_active = true) and the 404 of the four handlers; the
\* roles table is not changed by any of them, so Role.findById and
\* Role.findByName always find the admin role.  roles.js goes on to the
\* UPDATE, users.js DELETE /:userId/roles/:roleId to the count of the
\* administrators (role.name === 'admin'), the other two to user.isAdmin().
RoleFindUser(c) ==
  /\ Free(c)
  /\ \E u \in Users, op \in roleHandlers :
       LET call == [IdleCall EXCEPT !.op = op, !.user = u]
       IN  IF ~users[u].is_active
             THEN Respond(c, [call EXCEPT !.http = 404, !.error = UserNotFound])
             ELSE Continue(c, [call EXCEPT
                                 !.pc = CASE op = "rolesRemoveRole" -> "removeRole"
                                          [] op = "usersRemoveRole" -> "getUsersWithRole"
                                          [] OTHER                  -> "isAdmin"])
  /\ UNCHANGED <<trips, requests, stops, now, routes, users>>

\* user.isAdmin(): UserRole.userHasRoleName(this.id, 'admin')
RoleIsAdmin(c) ==
  /\ calls[c].pc = "isAdmin"
  /\ Continue(c, [calls[c] EXCEPT
                    !.pc = IF users[calls[c].user].admin_role = "active"
                             THEN "getUsersWithRole" ELSE WriteOf(calls[c].op)])
  /\ UNCHANGED <<trips, requests, stops, now, routes, users>>

\* UserRole.getUsersWithRole and the test admins.length <= 1
RoleGetUsersWithRole(c) ==
  /\ calls[c].pc = "getUsersWithRole"
  /\ IF Cardinality(getUsersWithRole(users)) <= 1
       THEN Respond(c, [calls[c] EXCEPT !.http = 400,
                                       !.error = LastAdminError(calls[c].op)])
       ELSE Continue(c, [calls[c] EXCEPT !.pc = WriteOf(calls[c].op)])
  /\ UNCHANGED <<trips, requests, stops, now, routes, users>>

\* UserRole.removeRole, lines 428-447: UPDATE user_roles SET is_active = false
\* WHERE user_id = $1 AND role_id = $2; no row, it throws
removeRole(c) ==
  /\ calls[c].pc = "removeRole"
  /\ IF users[calls[c].user].admin_role = "absent"
       THEN /\ Respond(c, [calls[c] EXCEPT !.http = 500, !.thrown = AssignmentNotFound])
            /\ UNCHANGED users
       ELSE /\ users' = [users EXCEPT ![calls[c].user].admin_role = "inactive"]
            /\ Respond(c, [calls[c] EXCEPT !.http = 200])
  /\ UNCHANGED <<trips, requests, stops, now, routes>>

\* UserRole.removeAllUserRoles, lines 596-611: UPDATE user_roles SET
\* is_active = false WHERE user_id = $1
removeAllUserRoles(c) ==
  /\ calls[c].pc = "removeAllUserRoles"
  /\ users' = [users EXCEPT ![calls[c].user].admin_role =
                               IF @ = "absent" THEN "absent" ELSE "inactive"]
  /\ Respond(c, [calls[c] EXCEPT !.http = 200])
  /\ UNCHANGED <<trips, requests, stops, now, routes>>

\* User.delete: UPDATE users SET is_active = false WHERE id = $1
UserDelete(c) ==
  /\ calls[c].pc = "userDelete"
  /\ users' = [users EXCEPT ![calls[c].user].is_active = FALSE]
  /\ Respond(c, [calls[c] EXCEPT !.http = 200])
  /\ UNCHANGED <<trips, requests, stops, now, routes>>

\* ---------------------------------------------------------------- specifications
Step(c) ==
    \/ CreateSelectPrice(c)
    \/ CreateInsert(c)
    \/ FindById(c)
    \/ UpdateStatusWrite(c)
    \/ UpdateStatusGetTrip(c)
    \/ UpdateStatusHasSeats(c)
    \/ PutFindTrip(c)
    \/ PutFindRequest(c)
    \/ PostRequest(c)
    \/ DeleteRequest(c)

\* any number of client calls in flight, their segments interleaved
Next == \E c \in Calls : Step(c)

Spec == Init /\ [][Next]_vars

\* one client call at a time, any number of calls
InitSeq ==
  /\ Start
  /\ probe = IdleProbe

NextSeq == Step("c1")

SpecSeq == InitSeq /\ [][NextSeq]_vars

\* ---------------------------------------------------------------- scenarios
\* a trip with one request of each of two passengers, the first one pending
TwoRequests(statuses) ==
  /\ trips \in [TripIds -> [driver_id : {1}, available_seats : 1..MaxSeats,
                               trip_status : {"scheduled"}, departure_time : {1},
                               price_per_seat : {1}]]
  /\ stops = <<>>
  /\ now = 0
  /\ routes = SeededRoutes
  /\ users = FirstUsers
  /\ \E t \in Trips :
     \E n1 \in 1..trips[t].available_seats, n2 \in 1..trips[t].available_seats,
        s2 \in statuses :
       requests = <<[trip_id |-> t, passenger_id |-> 2, requested_seats |-> n1,
                     request_status |-> "pending",
                     total_price |-> TotalPrice(trips[t].price_per_seat, n1)],
                    [trip_id |-> t, passenger_id |-> 3, requested_seats |-> n2,
                     request_status |-> s2,
                     total_price |-> TotalPrice(trips[t].price_per_seat, n2)]>>
  /\ calls = [c \in Calls |-> IdleCall]
  /\ response = NoResponse

\* two status calls of two clients on a trip with two pending requests, their
\* segments interleaved in any order; the test client notes how approvals end
InitApprovals ==
  /\ TwoRequests({"pending"})
  /\ probe = [IdleProbe EXCEPT !.budget = 2, !.noting = TRUE]

NextApprovals ==
  \E c \in Calls :
    \/ FindById(c)
    \/ PutFindTrip(c)
    \/ PutFindRequest(c)
    \/ UpdateStatusWrite(c)
    \/ UpdateStatusGetTrip(c)
    \/ UpdateStatusHasSeats(c)

SpecApprovals == InitApprovals /\ [][NextApprovals]_vars

\* the test client reads the remaining seats of the trip of a pending request:
\* Trip.findById, then getRemainingSeats on the instance
ProbeBefore ==
  /\ probe.phase = "off"
  /\ probe.budget = 2
  /\ \E r \in 1..Len(requests) :
       /\ requests[r].request_status = "pending"
       /\ probe' = [probe EXCEPT !.phase = "before", !.req = r,
                       !.before = getRemainingSeats(trips, requests, requests[r].trip_id,
                                     trips[requests[r].trip_id].available_seats)]
  /\ UNCHANGED <<trips, requests, calls, response, stops, now, routes, users>>

\* and reads them again once its two calls have returned
ProbeAfter ==
  /\ probe.phase = "before"
  /\ probe.budget = 0
  /\ calls["c1"].pc = "idle"
  /\ LET t == requests[probe.req].trip_id
     IN  probe' = [probe EXCEPT !.phase = "after",
                     !.after = getRemainingSeats(trips, requests, t, trips[t].available_seats)]
  /\ UNCHANGED <<trips, requests, calls, response, stops, now, routes, users>>

\* one client reads the remaining seats, makes two status calls one after the
\* other and reads the remaining seats again
InitRoundTrip ==
  /\ TwoRequests(allowedStatuses)
  /\ probe = [IdleProbe EXCEPT !.budget = 2, !.noting = TRUE]

NextRoundTrip ==
  \/ ProbeBefore
  \/ FindById("c1")
  \/ UpdateStatusWrite("c1")
  \/ UpdateStatusGetTrip("c1")
  \/ UpdateStatusHasSeats("c1")
  \/ ProbeAfter

SpecRoundTrip == InitRoundTrip /\ [][NextRoundTrip]_vars

\* a scheduled trip with one pending request; one client calls the trip
\* methods and handlers and the status methods of the request while time passes
InitTrips ==
  /\ trips \in [TripIds -> [driver_id : {1}, available_seats : 1..MaxSeats,
                               trip_status : {"scheduled"}, departure_time : {1},
                               price_per_seat : {1}]]
  /\ \E t \in TripIds : \E n \in 1..trips[t].available_seats :
       requests = <<[trip_id |-> t, passenger_id |-> 2, requested_seats |-> n,
                     request_status |-> "pending",
                     total_price |-> TotalPrice(trips[t].price_per_seat, n)]>>
  /\ calls = [c \in Calls |-> IdleCall]
  /\ response = NoResponse
  /\ probe = IdleProbe
  /\ stops = <<>>
  /\ now = 0
  /\ routes = SeededRoutes
  /\ users = FirstUsers

NextTrips ==
  \/ Tick
  \/ TripFindById("c1")
  \/ TripUpdate("c1")
  \/ PutTrip("c1")
  \/ DeleteTrip("c1")
  \/ FindById("c1")
  \/ UpdateStatusWrite("c1")
  \/ UpdateStatusGetTrip("c1")
  \/ UpdateStatusHasSeats("c1")

SpecTrips == InitTrips /\ [][NextTrips]_vars

\* the service with no stop yet
InitStops ==
  /\ Start
  /\ probe = IdleProbe

\* one client adds, updates and deletes stops, one call at a time
NextStops ==
  \/ StopCreate("c1", 0..MaxStops)
  \/ StopCreateInsert("c1")
  \/ StopFindById("c1", {"stopUpdate", "stopDelete"})
  \/ StopUpdate("c1")
  \/ StopDelete("c1")
  \/ StopReorder("c1")

SpecStops == InitStops /\ [][NextStops]_vars

\* a route with stops numbered 1..MaxStops+1, added in any sequence
InitStopDeletes ==
  /\ trips \in [TripIds -> [driver_id : {1}, available_seats : {1},
                               trip_status : {"scheduled"}, departure_time : {1},
                               price_per_seat : {1}]]
  /\ requests = <<>>
  /\ calls = [c \in Calls |-> IdleCall]
  /\ response = NoResponse
  /\ now = 0
  /\ routes = SeededRoutes
  /\ users = FirstUsers
  /\ \E v \in VisitOrders(1..(MaxStops + 1)) :
       stops = [i \in 1..(MaxStops + 1) |->
                  [route_id |-> 1, stop_order |-> v[i], live |-> TRUE]]
  /\ probe = [IdleProbe EXCEPT !.budget = 2, !.noting = TRUE]

\* two clients each delete a stop, their segments interleaved in any order
NextStopDeletes ==
  \E c \in Calls :
    \/ StopFindById(c, {"stopDelete"})
    \/ StopDelete(c)
    \/ StopReorder(c)

SpecStopDeletes == InitStopDeletes /\ [][NextStopDeletes]_vars

\* a trip with a price and no request yet; one client creates requests,
\* changes their status, and updates the trip and the requests, three calls
\* in a row
InitPrices ==
  /\ trips \in [TripIds -> [driver_id : {1}, available_seats : 1..MaxSeats,
                               trip_status : {"scheduled"}, departure_time : {1},
                               price_per_seat : 1..MaxPrice]]
  /\ requests = <<>>
  /\ calls = [c \in Calls |-> IdleCall]
  /\ response = NoResponse
  /\ probe = [IdleProbe EXCEPT !.budget = 3]
  /\ stops = <<>>
  /\ now = 0
  /\ routes = SeededRoutes
  /\ users = FirstUsers

NextPrices ==
  \/ CreateSelectPrice("c1")
  \/ CreateInsert("c1")
  \/ FindById("c1")
  \/ UpdateStatusWrite("c1")
  \/ UpdateStatusGetTrip("c1")
  \/ UpdateStatusHasSeats("c1")
  \/ TripFindByIdUpdate("c1")
  \/ TripUpdate("c1")
  \/ RequestFindByIdUpdate("c1")
  \/ RequestUpdate("c1")

SpecPrices == InitPrices /\ [][NextPrices]_vars

\* routes of users at the distances a search centre gives them, some of them
\* deactivated; one client searches and deletes
InitNearby ==
  /\ trips \in [TripIds -> [driver_id : {1}, available_seats : {1},
                               trip_status : {"scheduled"}, departure_time : {1},
                               price_per_seat : {1}]]
  /\ requests = <<>>
  /\ calls = [c \in Calls |-> IdleCall]
  /\ response = NoResponse
  /\ probe = IdleProbe
  /\ stops = <<>>
  /\ now = 0
  /\ users = FirstUsers
  /\ routes \in [Routes -> [route_type : {"custom"}, created_by : {1},
                            is_active : BOOLEAN, is_public : {FALSE},
                            distance_from_start : {Null} \cup 0..MaxDist,
                            distance_from_end : {Null} \cup 0..MaxDist]]

NextNearby ==
  \/ findNearby("c1")
  \/ RouteFindById("c1", {"deleteRoute"})
  \/ RouteDelete("c1")

SpecNearby == InitNearby /\ [][NextNearby]_vars

\* a default route without creator and a custom route of a user, one stop on
\* each; one client calls the handlers that change a route or its stops,
\* two calls in a row
InitRoutes ==
  /\ trips \in [TripIds -> [driver_id : {1}, available_seats : {1},
                               trip_status : {"scheduled"}, departure_time : {1},
                               price_per_seat : {1}]]
  /\ requests = <<>>
  /\ calls = [c \in Calls |-> IdleCall]
  /\ response = NoResponse
  /\ probe = [IdleProbe EXCEPT !.budget = 2]
  /\ now = 0
  /\ users = FirstUsers
  /\ \E u \in Users : routes = [SeededRoutes EXCEPT ![2].created_by = u]
  /\ stops = <<[route_id |-> 1, stop_order |-> 1, live |-> TRUE],
               [route_id |-> 2, stop_order |-> 1, live |-> TRUE]>>

NextRoutes ==
  \/ RouteFindById("c1", routeHandlers)
  \/ RouteUpdate("c1")
  \/ RouteDelete("c1")
  \/ RouteAddStopPoint("c1")
  \/ RouteStopFindById("c1")
  \/ StopCreateInsert("c1")
  \/ StopUpdate("c1")
  \/ StopDelete("c1")
  \/ StopReorder("c1")

SpecRoutes == InitRoutes /\ [][NextRoutes]_vars

\* accounts of which at least one is an administrator; two clients call the
\* role and user handlers
InitRoleCalls ==
  /\ trips \in [TripIds -> [driver_id : {1}, available_seats : {1},
                               trip_status : {"scheduled"}, departure_time : {1},
                               price_per_seat : {1}]]
  /\ requests = <<>>
  /\ calls = [c \in Calls |-> IdleCall]
  /\ response = NoResponse
  /\ probe = IdleProbe
  /\ stops = <<>>
  /\ now = 0
  /\ routes = SeededRoutes
  /\ users \in [Users -> [is_active : {TRUE}, admin_role : {"absent", "active"}]]
  /\ getUsersWithRole(users) # {}

NextRoleCalls ==
  \E c \in Calls :
    \/ RoleFindUser(c)
    \/ RoleIsAdmin(c)
    \/ RoleGetUsersWithRole(c)
    \/ removeRole(c)
    \/ removeAllUserRoles(c)
    \/ UserDelete(c)

SpecRoleCalls == InitRoleCalls /\ [][NextRoleCalls]_vars

\* a trip with a pending request; one client changes the trip's status,
\* posts requests and approves or rejects through the handler while the
\* clock runs
NextBookings ==
  \/ Tick
  \/ TripFindById("c1")
  \/ TripUpdate("c1")
  \/ PostRequest("c1")
  \/ PutFindTrip("c1")
  \/ PutFindRequest("c1")
  \/ UpdateStatusWrite("c1")
  \/ UpdateStatusGetTrip("c1")
  \/ UpdateStatusHasSeats("c1")

SpecBookings == InitTrips /\ [][NextBookings]_vars

\* ids of the rows of table trips when two drivers have posted a trip
TwoTripIds == {1, 2}

\* two trips of two drivers, a pending request of the third user on each;
\* one client approves and rejects through the handler
InitTwoTrips ==
  /\ trips \in [TwoTripIds -> [driver_id : {1, 2}, available_seats : 1..MaxSeats,
                                  trip_status : {"scheduled"}, departure_time : {1},
                                  price_per_seat : {1}]]
  /\ \A t \in TwoTripIds : trips[t].driver_id = t
  /\ requests = [t \in TwoTripIds |->
                   [trip_id |-> t, passenger_id |-> 3, requested_seats |-> 1,
                    request_status |-> "pending",
                    total_price |-> TotalPrice(trips[t].price_per_seat, 1)]]
  /\ calls = [c \in Calls |-> IdleCall]
  /\ response = NoResponse
  /\ probe = IdleProbe
  /\ stops = <<>>
  /\ now = 0
  /\ routes = SeededRoutes
  /\ users = FirstUsers

NextTwoTrips ==
  \/ PutFindTrip("c1")
  \/ PutFindRequest("c1")
  \/ UpdateStatusWrite("c1")
  \/ UpdateStatusGetTrip("c1")
  \/ UpdateStatusHasSeats("c1")

SpecTwoTrips == InitTwoTrips /\ [][NextTwoTrips]_vars

\* two clients add stops without a stop_order, their statements interleaved
NextStopAdds ==
  \E c \in Calls :
    \/ StopCreate(c, {0})
    \/ StopCreateInsert(c)

SpecStopAdds == InitStops /\ [][NextStopAdds]_vars

\* ================================================================ properties
Driver(t) == trips[t].driver_id

\* seats a trip has left when request r is not counted among the approved ones
RemainingWithout(t, r) ==
  trips[t].available_seats - ApprovedSeats(UpdateRow(requests, r, "pending"), t)

\* the last step ended an approval that got as far as the UPDATE
ApprovalEnded ==
  /\ response.pc = "done"
  /\ response.op \in {"approve", "putRequest"}
  /\ response.status = "approved"
  /\ response.this_status # ""

\* C1 - for every trip, in every reachable state, the requested_seats of its
\* approved requests sum to at most its available_seats
C1_ApprovedWithinCapacity ==
  \A t \in Trips : ApprovedSeats(requests, t) <= trips[t].available_seats

\* C3 - an approval of a pending request that ends with 'Not enough available
\* seats' leaves the stored status pending and the approved seat total as it was
C3_FailedApprovalKeepsPending ==
  (ApprovalEnded /\ response.this_status = "pending" /\ response.thrown = NotEnoughSeats)
    => /\ requests[response.req].request_status = "pending"
       /\ ApprovedSeats(requests, response.this_trip)
            = ApprovedSeats(UpdateRow(requests, response.req, "pending"), response.this_trip)

\* C4 - with no other operation in flight, the approval of a pending request of
\* n seats on a trip with at least n seats remaining returns success and the
\* stored status becomes approved
C4_ApprovalWithCapacitySucceeds ==
  (/\ ApprovalEnded
   /\ response.this_status = "pending"
   /\ RemainingWithout(response.this_trip, response.req) >= response.this_seats)
    => /\ response.thrown = ""
       /\ requests[response.req].request_status = "approved"

AllowedTransitions ==
  {<<"pending", "approved">>, <<"pending", "rejected">>,
   <<"pending", "cancelled">>, <<"approved", "cancelled">>}

\* C6 - a stored status changes only along pending->approved, pending->rejected,
\* pending->cancelled and approved->cancelled; an approve or reject of a request
\* that is not pending fails and leaves the status unchanged
C6_OnlyAllowedTransitions ==
  [][/\ \A r \in 1..Len(requests) :
          requests'[r].request_status # requests[r].request_status
            => <<requests[r].request_status, requests'[r].request_status>> \in AllowedTransitions
     /\ (/\ response'.pc = "done"
         /\ response'.status \in {"approved", "rejected"}
         /\ response'.this_status \notin {"", "pending"})
          => response'.thrown # ""]_vars

\* C7 - a reject of a request that is already rejected leaves it rejected and
\* fails with an invalid-state-transition error
C7_SecondRejectFails ==
  (/\ response.pc = "done"
   /\ response.status = "rejected"
   /\ response.this_status = "rejected")
    => /\ requests[response.req].request_status = "rejected"
       /\ response.thrown # ""

\* C9 - getRemainingSeats returns available_seats minus the approved
\* requested_seats, and hasAvailableSeats(n) is true exactly when that
\* difference is at least n
C9_RemainingSeatsExact ==
  \A t \in Trips :
    LET diff == trips[t].available_seats - ApprovedSeats(requests, t)
    IN  /\ getRemainingSeats(trips, requests, t, trips[t].available_seats) = diff
        /\ \A n \in 1..MaxSeats :
             hasAvailableSeats(trips, requests, t, trips[t].available_seats, n) <=> diff >= n

\* a passenger's POST /:id/request whose seat count is out of range has just been answered
OutOfRangePost(resp) ==
  /\ resp.pc = "done"
  /\ resp.op = "postRequest"
  /\ resp.user # Driver(resp.trip)
  /\ (resp.seats < 1 \/ resp.seats > trips[resp.trip].available_seats)

\* C10 - a passenger's creation request with a seat count below 1 or above the
\* trip's available_seats is refused with the seat-count error and the stored
\* requests are the same before and after the call
C10_OutOfRangeCountRefused ==
  [][OutOfRangePost(response')
       => /\ response'.http = 400
          /\ response'.error = PassengerCount
          /\ requests' = requests]_vars

C10_Witness ==
  /\ OutOfRangePost(response)
  /\ response.seats > trips[response.trip].available_seats
  /\ response.http = 400

\* requests of passenger u on trip t that are pending or approved
ActiveRequests(t, u) ==
  {r \in 1..Len(requests) :
     /\ requests[r].trip_id = t
     /\ requests[r].passenger_id = u
     /\ requests[r].request_status \in {"pending", "approved"}}

\* C5 - for every (trip, passenger) pair at most one request is pending or
\* approved, also while two creations for the same pair are in flight together
C5_OneActiveRequestPerPair ==
  \A t \in Trips, u \in Users : Cardinality(ActiveRequests(t, u)) <= 1

\* one creation has just inserted while another for the same pair is still in flight
C5_Witness ==
  \E c \in Calls :
    /\ calls[c].pc = "insert"
    /\ response.op = "create"
    /\ response.thrown = ""
    /\ response.trip = calls[c].trip
    /\ response.user = calls[c].user
    /\ ActiveRequests(response.trip, response.user) # {}

\* both requests of the scenario have had their approval answered, and the
\* two approvals were in flight together
BothApprovalsEnded ==
  /\ probe.noting
  /\ probe.overlap
  /\ probe.outcome[1] # ""
  /\ probe.outcome[2] # ""

\* C2 - two 2-seat requests on a trip of 3 seats, approved concurrently: exactly
\* one approval succeeds and the other fails with the seat-unavailable error;
\* afterwards exactly one request is approved and 1 seat remains
C2_ExactlyOneApprovalSucceeds ==
  (/\ BothApprovalsEnded
   /\ trips[requests[1].trip_id].available_seats = 3
   /\ requests[1].requested_seats = 2
   /\ requests[2].requested_seats = 2)
    => /\ {probe.outcome[1], probe.outcome[2]} = {"ok", NotEnoughSeats}
       /\ Cardinality({r \in 1..2 : requests[r].request_status = "approved"}) = 1
       /\ trips[requests[1].trip_id].available_seats
            - ApprovedSeats(requests, requests[1].trip_id) = 1

\* the test client saw the approval of its request succeed and the request is
\* cancelled now: its two calls were approve, then cancel
RoundTripDone ==
  /\ probe.phase = "after"
  /\ probe.outcome[probe.req] = "ok"
  /\ requests[probe.req].request_status = "cancelled"

\* C8 - a successful approval of a pending request followed by the cancellation
\* of that request restores what getRemainingSeats returned before the approval
C8_ReserveReleaseRoundTrip ==
  RoundTripDone => probe.after = probe.before

C8_Witness ==
  /\ RoundTripDone
  /\ probe.after = probe.before
  /\ requests[probe.req].requested_seats >= 1

\* a POST /:id/request of the trip's driver has just been answered
OwnTripPost(resp) ==
  /\ resp.pc = "done"
  /\ resp.op = "postRequest"
  /\ resp.user = Driver(resp.trip)

C12_DuplicateOnlyWhenActive ==
  (response.pc = "done" /\ response.op = "create")
    => (response.thrown # ""
          <=> \E r \in ActiveRequests(response.trip, response.user) : r # response.req)

\* C13 - a cancellation by the request's own passenger succeeds and stores
\* cancelled when the status was pending or approved, and is refused with the
\* status unchanged when it was rejected or cancelled
C13_PassengerCancels ==
  (/\ response.pc = "done"
   /\ response.op = "deleteRequest"
   /\ response.this_status # ""
   /\ response.user = requests[response.req].passenger_id)
    => IF response.this_status \in {"pending", "approved"}
         THEN /\ response.http = 200
              /\ requests[response.req].request_status = "cancelled"
         ELSE /\ response.http # 200
              /\ requests[response.req].request_status = response.this_status

\* a handler call that has passed its authorization test and may write
Authorized(call) ==
  /\ call.op = "putRequest"
  /\ call.pc \in {"findRequest", "update", "getTrip", "hasSeats"}

\* C14 - through the handlers a request is approved or rejected only by the
\* driver of its trip and cancelled only by its own passenger: the attempt of
\* any other user is refused and changes nothing, and no step removes a row
C14_OnlyDriverOrPassengerChanges ==
  [][/\ Len(requests') >= Len(requests)
     /\ \A r \in 1..Len(requests) :
          /\ requests'[r].trip_id = requests[r].trip_id
          /\ requests'[r].passenger_id = requests[r].passenger_id
     /\ \A c \in Calls :
          /\ Authorized(calls[c]) => calls[c].user = Driver(calls[c].trip)
          /\ (calls[c].op = "putRequest" /\ calls[c].pc = "update")
               => /\ calls[c].user = Driver(requests[calls[c].req].trip_id)
                  /\ calls[c].status \in {"approved", "rejected"}
          /\ calls[c].op # "deleteRequest"
     /\ (/\ response'.pc = "done"
         /\ response'.op = "putRequest"
         /\ response'.user # Driver(response'.trip))
          => /\ response'.http = 403
             /\ requests' = requests
     /\ (/\ response'.pc = "done"
         /\ response'.op = "deleteRequest"
         /\ response'.this_status # ""
         /\ response'.user # requests[response'.req].passenger_id)
          => /\ response'.http = 403
             /\ requests' = requests]_vars

\* a user who is not the driver has just been refused the approval or
\* rejection of a pending request
C14_Witness ==
  /\ response.pc = "done"
  /\ response.op = "putRequest"
  /\ response.user # Driver(response.trip)
  /\ response.http = 403
  /\ response.req <= Len(requests)
  /\ requests[response.req].request_status = "pending"

\* C15 - a trip's status changes only along scheduled->active,
\* active->completed, scheduled->cancelled and active->cancelled, so a completed
\* or cancelled trip keeps its status whatever is called on it
C15_TripTransitions ==
  [][\A t \in Trips :
       trips'[t].trip_status # trips[t].trip_status
         => <<trips[t].trip_status, trips'[t].trip_status>>
              \in {<<"scheduled", "active">>, <<"active", "completed">>,
                   <<"scheduled", "cancelled">>, <<"active", "cancelled">>}]_vars

\* C16 - the driver's cancel or update of a trip is refused with the
\* already-started error and changes nothing once now >= departure_time,
\* whatever the stored status; before the departure time the driver's cancel
\* succeeds and stores cancelled
C16_StartedTripRefused ==
  (/\ response.pc = "done"
   /\ response.op \in {"putTrip", "deleteTrip"}
   /\ response.user = Driver(response.trip))
    => IF now >= trips[response.trip].departure_time
         THEN /\ response.http = 400
              /\ trips[response.trip].trip_status = response.this_status
         ELSE response.op = "deleteTrip"
                => /\ response.http = 200
                   /\ trips[response.trip].trip_status = "cancelled"

\* C17 - isBookable is true exactly when the trip is scheduled, departs
\* strictly after now and has more than 0 seats remaining after the approved
\* requests; a trip whose seats are all approved is not bookable
C17_BookableIffSeatsRemain ==
  \A t \in Trips :
    isBookable(trips[t], now)
      <=> /\ trips[t].trip_status = "scheduled"
          /\ trips[t].departure_time > now
          /\ trips[t].available_seats - ApprovedSeats(requests, t) > 0

\* the stop_order values of the stops of a route
StopOrders(rows, route) == {rows[i].stop_order : i \in LiveStops(rows, route)}

\* the stops of the route are numbered 1..N, each number once
Contiguous(rows, route) ==
  /\ StopOrders(rows, route) = 1..Cardinality(LiveStops(rows, route))
  /\ \A i, j \in LiveStops(rows, route) :
       rows[i].stop_order = rows[j].stop_order => i = j

\* C18 - once every call has returned, the stop_order values of each route's
\* stops are pairwise distinct and are exactly 1..N for its N stops
C18_StopOrdersContiguous ==
  (\A c \in Calls : calls[c].pc = "idle")
    => \A rt \in Routes : Contiguous(stops, rt)

\* C19 - a deletion removes exactly the stop it is called on, and its
\* renumbering returns with the remaining stops of the route numbered 1..N in
\* the order of their previous stop_order and the other routes' stops as they were
C19_DeleteRenumbers ==
  [][/\ calls["c1"].pc = "stopDelete"
          => stops' = [stops EXCEPT ![calls["c1"].stop] = DeadStop]
     /\ calls["c1"].pc = "reorder"
          => LET rt == calls["c1"].route
             IN  /\ response'.thrown = ""
                 /\ Contiguous(stops', rt)
                 /\ \A i, j \in LiveStops(stops, rt) :
                      stops[i].stop_order < stops[j].stop_order
                        => stops'[i].stop_order < stops'[j].stop_order
                 /\ \A i \in 1..Len(stops) :
                      stops[i].route_id # rt => stops'[i] = stops[i]]_vars

\* both deletions of the scenario have returned, they were in flight
\* together and they removed two stops
BothDeletesEnded ==
  /\ probe.budget = 0
  /\ probe.overlap
  /\ \A c \in Calls : calls[c].pc = "idle"
  /\ Cardinality(LiveStops(stops, 1)) = Len(stops) - 2

\* C20 - two deletions of different stops of one route, their DELETE and
\* renumbering statements interleaved: once both have returned, the remaining
\* stops are numbered 1..N without gap or duplicate, and no step changes the
\* relative order of the remaining stops
C20_ConcurrentDeletesRenumber ==
  [][/\ \A i, j \in LiveStops(stops', 1) :
          stops[i].stop_order < stops[j].stop_order
            => stops'[i].stop_order < stops'[j].stop_order
     /\ BothDeletesEnded' => Contiguous(stops', 1)]_vars

\* C21 - a request is stored with total_price = the trip's price_per_seat
\* at creation times its requested_seats, and no later step (a change of the
\* trip's price, a status change, an update) changes the stored total_price
C21_TotalPriceFrozen ==
  [][/\ \A r \in 1..Len(requests) :
          requests'[r].total_price = requests[r].total_price
     /\ Len(requests') > Len(requests)
          => LET row == requests'[Len(requests')]
             IN  row.total_price = trips[row.trip_id].price_per_seat * row.requested_seats]_vars

\* a request whose trip has changed its price since the creation, and whose
\* status has changed, still holds the total of the creation
C21_Witness ==
  \E r \in 1..Len(requests) :
    /\ requests[r].request_status # "pending"
    /\ requests[r].total_price
         # trips[requests[r].trip_id].price_per_seat * requests[r].requested_seats
    /\ requests[r].total_price > 0

\* C26 - a Trip.update of available_seats that follows approvals never
\* leaves available_seats below the sum of requested_seats of the trip's
\* approved requests
C26_UpdateKeepsCapacity ==
  [][\A t \in Trips :
       (/\ trips'[t].available_seats # trips[t].available_seats
        /\ ApprovedSeats(requests, t) > 0
        /\ trips[t].available_seats >= ApprovedSeats(requests, t))
         => trips'[t].available_seats >= ApprovedSeats(requests', t)]_vars

Distances(rt) ==
  {d \in {routes[rt].distance_from_start, routes[rt].distance_from_end} : d # Null}

\* the smaller of the distances from the centre to the start and to the end
MinDistance(rt) == CHOOSE d \in Distances(rt) : \A e \in Distances(rt) : d <= e

C23_DefaultRoutesProtected ==
  [][/\ \A rt \in Routes :
          routes[rt].route_type = "default"
            => /\ routes'[rt] = routes[rt]
               /\ \A i \in 1..Len(stops) :
                    stops[i].route_id = rt => stops'[i] = stops[i]
               /\ Len(stops') > Len(stops) => stops'[Len(stops')].route_id # rt
     /\ (response'.op \in routeHandlers
           /\ routes[response'.route].route_type = "default")
          => /\ response'.http = 403
             /\ response'.error \in {NotAuthEditRoute, NotAuthDeleteRoute}
     /\ (/\ response'.op = "deleteRoute"
         /\ routes[response'.route].route_type = "custom"
         /\ routes[response'.route].created_by = response'.user
         /\ routes[response'.route].is_active)
          => /\ response'.http = 200
             /\ routes' = [routes EXCEPT ![response'.route].is_active = FALSE]]_vars

\* the creator's delete has deactivated the custom route, and a delete
\* against the default route has just been refused
C23_Witness ==
  /\ ~routes[2].is_active
  /\ routes[2].route_type = "custom"
  /\ response.op = "deleteRoute"
  /\ response.route = 1
  /\ response.http = 403

\* C24 - no role removal, removal of all roles or user deletion, in any
\* order and interleaving, takes the last administrator away: if an active
\* user holds an active admin assignment before a step, one does after it
C24_LastAdminKept ==
  [][getUsersWithRole(users) # {} => getUsersWithRole(users') # {}]_vars

\* C25 - a creation request of a user who is not the driver, with a seat
\* count within 1..available_seats and no pending or approved request of
\* that user on the trip, succeeds and stores exactly one new row: pending,
\* the caller as passenger, requested_seats = the count submitted
C25_ValidCreationPersists ==
  [][(/\ response'.op = "postRequest"
      /\ response'.user # trips[response'.trip].driver_id
      /\ response'.seats \in 1..trips[response'.trip].available_seats
      /\ ~\E r \in 1..Len(requests) :
            /\ requests[r].trip_id = response'.trip
            /\ requests[r].passenger_id = response'.user
            /\ requests[r].request_status \in {"pending", "approved"})
       => /\ response'.http = 201
          /\ Len(requests') = Len(requests) + 1
          /\ SubSeq(requests', 1, Len(requests)) = requests
          /\ LET row == requests'[Len(requests')]
             IN  /\ row.request_status = "pending"
                 /\ row.passenger_id = response'.user
                 /\ row.trip_id = response'.trip
                 /\ row.requested_seats = response'.seats]_vars

\* C28 - a request becomes pending (is created) or approved only on a trip
\* that is scheduled and whose departure time has not passed
C28_OnlyOnScheduledFutureTrips ==
  [][\A r \in 1..Len(requests') :
       (\/ r > Len(requests)
        \/ (requests'[r].request_status = "approved"
              /\ requests[r].request_status # "approved"))
         => LET trip == trips[requests'[r].trip_id]
            IN  trip.trip_status = "scheduled" /\ trip.departure_time > now]_vars

\* C29 - an approve or reject sent through the endpoint of trip T changes a
\* request only if the request belongs to T and the caller drives T; for a
\* request of another trip it answers 404 'Trip request not found' and
\* leaves every request as it was
C29_RequestOfTheTripOnly ==
  [][LET call == calls["c1"]
     IN  /\ \A r \in 1..Len(requests) :
              requests'[r] # requests[r]
                => /\ requests[r].trip_id = call.trip
                   /\ trips[call.trip].driver_id = call.user
                   /\ call.req = r
         /\ (/\ call.pc = "findRequest"
             /\ call.req <= Len(requests)
             /\ requests[call.req].trip_id # call.trip)
              => /\ response'.http = 404
                 /\ response'.error = RequestNotFound
                 /\ requests' = requests]_vars

\* a driver named a trip of theirs and the pending request of the other
\* driver's trip, and was answered 404
C29_Witness ==
  /\ response.op = "putRequest"
  /\ response.http = 404
  /\ trips[response.trip].driver_id = response.user
  /\ response.req <= Len(requests)
  /\ requests[response.req].trip_id # response.trip
  /\ requests[response.req].request_status = "pending"

\* C30 - two creations without stop_order on one route, interleaved in any
\* order: no two stops of a route ever hold the same stop_order, and every
\* insert that succeeds stores max(existing stop_order) + 1 as of the
\* insert, 1 on a route without stops
C30_ConcurrentAddsDistinct ==
  [][/\ \A i, j \in 1..Len(stops') :
          (i # j /\ stops'[i].route_id = stops'[j].route_id)
            => stops'[i].stop_order # stops'[j].stop_order
     /\ Len(stops') > Len(stops)
          => LET row == stops'[Len(stops')]
             IN  row.stop_order = MaxStopOrder(stops, row.route_id) + 1]_vars

\* both calls read the same next order; one stored it, the other was
\* refused by the constraint
C30_Witness ==
  /\ response.op = "stopCreate"
  /\ response.thrown = UniqueStopOrder
  /\ \E i \in 1..Len(stops) :
       stops[i].route_id = response.route /\ stops[i].stop_order = response.order
  /\ \A c \in Calls : calls[c].pc = "idle"

====
